---- MODULE Spec2Model ----
(***************************************************************************)
(* Lighthouse Monitor (src/lighthouse_monitor.py): the scoring history and *)
(* change-detection pipeline.  One invocation of main() loads history.json,*)
(* audits the configured URLs one after the other, appends the Run, keeps  *)
(* the last 52 Runs, rewrites history.json and then sends the e-mail.      *)
(*                                                                         *)
(* A Python dict is modelled in insertion order: a Score Record is a       *)
(* sequence of [category, score] pairs with distinct categories, a Run is  *)
(* [date, results] with results a sequence of [url, scores].  json.dump    *)
(* and json.load keep ints, strings, list order and key order, so a        *)
(* complete history.json holds the sequence of Runs that was dumped.       *)
(***************************************************************************)
EXTENDS Integers, Sequences, FiniteSets, TLC

\* ------------------------------------------------------------------ bounds
\* Invocations of main() in one behaviour.
MaxInvocations == 3
\* Largest threshold and longest Score Record given to compare_scores alone.
MaxThreshold == 6
MaxRecordLen == 2

\* ------------------------------------------------------- program constants
\* "Keep only last 52 runs" (main).
Retention == 52

\* config["urls"] after the strip/filter of main; config["categories"].
URLS == <<"a", "b">>
ConfigCategories == <<"performance">>
\* Scores the API reports for a category, and thresholds load_config yields.
ApiScores == {80, 85}
Thresholds == {0, 5, 6}

\* ------------------------------------------------------------------ helpers
Abs(x) == IF x < 0 THEN -x ELSE x

Range(s) == {s[k] : k \in 1..Len(s)}

\* Python's s[-n:] for n > 0.
LastN(s, n) == IF Len(s) <= n THEN s ELSE SubSeq(s, Len(s) - n + 1, Len(s))

\* dict membership and dict.get on a Score Record.
HasCategory(rec, cat) == \E k \in 1..Len(rec) : rec[k].category = cat
ScoreOf(rec, cat) == rec[CHOOSE k \in 1..Len(rec) : rec[k].category = cat].score

\* ----------------------------------------------------------- compare_scores
Direction(diff) == IF diff > 0 THEN "improved" ELSE "declined"

\* "abs(diff) >= threshold"; the variant excludes the boundary.
ExceedsStrict(diff, threshold) == Abs(diff) > threshold
Exceeds(diff, threshold) == Abs(diff) >= threshold

RECURSIVE CompareUpTo(_, _, _, _)
CompareUpTo(current, previous, threshold, k) ==
    IF k = 0 THEN << >>
    ELSE LET rest == CompareUpTo(current, previous, threshold, k - 1)
             category == current[k].category
             current_score == current[k].score
         IN  IF HasCategory(previous, category)
             THEN LET prev_score == ScoreOf(previous, category)
                      diff == current_score - prev_score
                  IN  IF Exceeds(diff, threshold)
                      THEN Append(rest, [category |-> category,
                                         previous |-> prev_score,
                                         current |-> current_score,
                                         diff |-> diff,
                                         direction |-> Direction(diff)])
                      ELSE rest
             ELSE rest

compare_scores(current, previous, threshold) ==
    CompareUpTo(current, previous, threshold, Len(current))

\* ----------------------------------------------------------- run_lighthouse
\* What requests.get yields: a RequestException, or a response whose
\* lighthouseResult.categories holds a score for some of the categories.
\* The score is kept as the integer int(score * 100) produces.
Responses ==
    {[error |-> TRUE, data |-> << >>]} \cup
    {[error |-> FALSE, data |-> f] :
        f \in UNION {[D -> ApiScores] : D \in SUBSET Range(ConfigCategories)}}

None == [none |-> TRUE, scores |-> << >>]

RECURSIVE ExtractScores(_, _)
ExtractScores(data, k) ==
    IF k = 0 THEN << >>
    ELSE LET rest == ExtractScores(data, k - 1)
             cat == ConfigCategories[k]
         IN  IF cat \in DOMAIN data
             THEN Append(rest, [category |-> cat, score |-> data[cat]])
             ELSE rest

run_lighthouse(resp) ==
    IF resp.error THEN None
    ELSE [none |-> FALSE, scores |-> ExtractScores(resp.data, Len(ConfigCategories))]

\* --------------------------------------------------------------------- main
\* "if scores:" -- None and the empty dict are both falsy; the variant is
\* "if scores is not None:".
IsNotNone(s) == ~s.none
Truthy(s) == ~s.none /\ s.scores # << >>

\* previous_scores: the last Run's results as a dict url -> scores; the
\* variant folds every Run of the history into the dict.
AllRuns(runs) == runs
ComparedRuns(runs) == IF runs = << >> THEN << >> ELSE <<runs[Len(runs)]>>

UrlsIn(run) == {run.results[k].url : k \in 1..Len(run.results)}

LastEntryFor(run, url) ==
    run.results[CHOOSE k \in 1..Len(run.results) :
                   /\ run.results[k].url = url
                   /\ \A m \in (k + 1)..Len(run.results) : run.results[m].url # url]

RECURSIVE BuildPrevious(_, _)
BuildPrevious(runs, k) ==
    IF k = 0 THEN << >>
    ELSE LET older == BuildPrevious(runs, k - 1)
             run == runs[k]
         IN  [u \in (DOMAIN older) \cup UrlsIn(run) |->
                 IF u \in UrlsIn(run) THEN LastEntryFor(run, u).scores ELSE older[u]]

PreviousScores(runs) == BuildPrevious(ComparedRuns(runs), Len(ComparedRuns(runs)))

\* previous_scores.get(url, {})
PrevFor(prev_scores, url) == IF url \in DOMAIN prev_scores THEN prev_scores[url] ELSE << >>

\* "if changes: has_changes = True"; the variant is "has_changes = bool(changes)".
LastChangesOnly(flag, changes) == changes # << >>
UpdateHasChanges(flag, changes) == flag \/ changes # << >>

StripResults(results) ==
    [k \in 1..Len(results) |-> [url |-> results[k].url, scores |-> results[k].scores]]

NewRun(date, results) == [date |-> date, results |-> StripResults(results)]

\* history["runs"].append(...), unconditional; the variant skips an empty Run.
SkipEmptyRun(runs, run) == IF run.results = << >> THEN runs ELSE Append(runs, run)
AppendRun(runs, run) == Append(runs, run)

\* history["runs"][-52:]; the variant is history["runs"][:52].
KeepFirst(runs) == IF Len(runs) > Retention THEN SubSeq(runs, 1, Retention) ELSE runs
Truncate(runs) == IF Len(runs) > Retention THEN LastN(runs, Retention) ELSE runs

SubjectFor(flag) == IF flag THEN "alert" ELSE "report"

\* send_email: "except Exception" catches every delivery failure; the variant
\* lets a failure escape.
SendRaisesOnFailure(outcome) == outcome = "failed"
SendRaises(outcome) == FALSE

\* ---------------------------------------------------------------- the store
Missing == [kind |-> "missing", runs |-> << >>]
\* history.json opened with "w" and not yet fully written: some proper prefix
\* of the serialisation, which json.load rejects.
Partial == [kind |-> "partial", runs |-> << >>]
Complete(runs) == [kind |-> "ok", runs |-> runs]

\* A history.json left by earlier weekly runs in which every fetch succeeded.
EarlierRun(d) ==
    [date |-> d,
     results |-> [k \in 1..Len(URLS) |->
                    [url |-> URLS[k],
                     scores |-> <<[category |-> ConfigCategories[1], score |-> 80]>>]]]
EarlierHistory(n) == [k \in 1..n |-> EarlierRun(k - n)]

VARIABLES
    file,             \* history.json
    now,              \* the clock: datetime.now() of the latest invocation
    pc,               \* where main() is: idle, audit, dump, saved, done
    threshold,        \* config["threshold"]
    history,          \* history["runs"]
    previous_scores,
    idx,              \* position of the for loop over urls
    current_results,
    has_changes,
    run_date,
    raised,           \* main() ended with an uncaught exception
    subject,          \* subject handed to send_email, "none" if not called
    email,            \* none, skipped, sent, failed
    fetched,          \* what run_lighthouse returned for each URL so far
    prior,            \* history.json as it was when this invocation began
    cmp               \* compare_scores on its own: inputs and result

vars == <<file, now, pc, threshold, history, previous_scores, idx, current_results,
          has_changes, run_date, raised, subject, email, fetched, prior, cmp>>

memory == <<threshold, history, previous_scores, idx, current_results,
            has_changes, run_date, raised, subject, email, fetched, prior>>

NoCmp == [current |-> << >>, previous |-> << >>, threshold |-> 0,
          changes |-> << >>, done |-> FALSE]

FreshMemory ==
    /\ threshold = 0
    /\ history = << >>
    /\ previous_scores = << >>
    /\ idx = 0
    /\ current_results = << >>
    /\ has_changes = FALSE
    /\ run_date = 0
    /\ raised = FALSE
    /\ subject = "none"
    /\ email = "none"
    /\ fetched = << >>
    /\ prior = Missing

Init ==
    /\ file \in {Missing, Complete(EarlierHistory(Retention - 1))}
    /\ now = 0
    /\ pc = "idle"
    /\ FreshMemory
    /\ cmp = NoCmp

\* main, up to the audit loop: load_config, load_history, previous_scores.
Start ==
    /\ pc = "idle"
    /\ now < MaxInvocations
    /\ now' = now + 1
    /\ run_date' = now + 1
    /\ prior' = file
    /\ \E t \in Thresholds : threshold' = t
    /\ idx' = 1
    /\ current_results' = << >>
    /\ has_changes' = FALSE
    /\ fetched' = << >>
    /\ subject' = "none"
    /\ email' = "none"
    /\ IF file.kind = "partial"
       THEN \* json.load raises JSONDecodeError; nothing catches it
            /\ raised' = TRUE
            /\ pc' = "done"
            /\ history' = << >>
            /\ previous_scores' = << >>
       ELSE /\ raised' = FALSE
            /\ pc' = "audit"
            /\ history' = (IF file.kind = "ok" THEN file.runs ELSE << >>)
            /\ previous_scores' = PreviousScores(history')
    /\ UNCHANGED <<file, cmp>>

\* One iteration of "for url in urls".
AuditUrl ==
    /\ pc = "audit"
    /\ idx <= Len(URLS)
    /\ \E resp \in Responses :
         LET url == URLS[idx]
             scores == run_lighthouse(resp)
             prev == PrevFor(previous_scores, url)
             changes == compare_scores(scores.scores, prev, threshold)
         IN  /\ fetched' = Append(fetched, scores)
             /\ IF Truthy(scores)
                THEN /\ has_changes' = UpdateHasChanges(has_changes, changes)
                     /\ current_results' =
                            Append(current_results,
                                   [url |-> url, scores |-> scores.scores,
                                    previous |-> prev, changes |-> changes])
                ELSE UNCHANGED <<has_changes, current_results>>
    /\ idx' = idx + 1
    /\ UNCHANGED <<file, now, pc, threshold, history, previous_scores, run_date,
                   raised, subject, email, prior, cmp>>

\* Append the Run, keep the last 52, and open history.json with "w".
AppendAndOpen ==
    /\ pc = "audit"
    /\ idx > Len(URLS)
    /\ history' = Truncate(AppendRun(history, NewRun(run_date, current_results)))
    /\ file' = Partial
    /\ pc' = "dump"
    /\ UNCHANGED <<now, threshold, previous_scores, idx, current_results, has_changes,
                   run_date, raised, subject, email, fetched, prior, cmp>>

\* json.dump and the close of the with block.
Dump ==
    /\ pc = "dump"
    /\ file' = Complete(history)
    /\ pc' = "saved"
    /\ UNCHANGED <<now, threshold, history, previous_scores, idx, current_results,
                   has_changes, run_date, raised, subject, email, fetched, prior, cmp>>

\* "Send email".
Notify ==
    /\ pc = "saved"
    /\ IF current_results # << >>
       THEN /\ subject' = SubjectFor(has_changes)
            /\ \E outcome \in {"skipped", "sent", "failed"} :
                 /\ email' = outcome
                 /\ raised' = SendRaises(outcome)
       ELSE UNCHANGED <<subject, email, raised>>
    /\ pc' = "done"
    /\ UNCHANGED <<file, now, threshold, history, previous_scores, idx, current_results,
                   has_changes, run_date, fetched, prior, cmp>>

ForgetMemory ==
    /\ threshold' = 0
    /\ history' = << >>
    /\ previous_scores' = << >>
    /\ idx' = 0
    /\ current_results' = << >>
    /\ has_changes' = FALSE
    /\ run_date' = 0
    /\ raised' = FALSE
    /\ subject' = "none"
    /\ email' = "none"
    /\ fetched' = << >>
    /\ prior' = Missing

\* The process ends; only history.json and the clock remain.
Exit ==
    /\ pc = "done"
    /\ pc' = "idle"
    /\ ForgetMemory
    /\ UNCHANGED <<file, now, cmp>>

\* The process is killed (power loss, SIGKILL) while main() runs.
Crash ==
    /\ pc \in {"audit", "dump", "saved"}
    /\ pc' = "idle"
    /\ ForgetMemory
    /\ UNCHANGED <<file, now, cmp>>

Next == Start \/ AuditUrl \/ AppendAndOpen \/ Dump \/ Notify \/ Exit \/ Crash

Spec == Init /\ [][Next]_vars

\* ------------------------------------------------- compare_scores on its own
CompareCategories == {"performance", "accessibility", "seo"}
CompareScores == {79, 85, 88}
CompareThresholds == (-1)..MaxThreshold

Pairs == [category : CompareCategories, score : CompareScores]

\* Score Records in every insertion order, up to MaxRecordLen categories.
OrderedRecords ==
    UNION {{r \in [1..n -> Pairs] :
               \A j, k \in 1..n : j # k => r[j].category # r[k].category} :
           n \in 0..MaxRecordLen}

\* Score Records over any set of categories, in one order (dict.get does not
\* depend on the order of the dict it reads).
CanonicalOrder == <<"performance", "accessibility", "seo">>

RECURSIVE RecordFrom(_, _)
RecordFrom(f, k) ==
    IF k = 0 THEN << >>
    ELSE LET rest == RecordFrom(f, k - 1)
             cat == CanonicalOrder[k]
         IN  IF cat \in DOMAIN f
             THEN Append(rest, [category |-> cat, score |-> f[cat]])
             ELSE rest

BaselineRecords ==
    {RecordFrom(f, Len(CanonicalOrder)) :
        f \in UNION {[D -> CompareScores] : D \in SUBSET CompareCategories}}

InitCompare ==
    /\ file = Missing
    /\ now = 0
    /\ pc = "idle"
    /\ FreshMemory
    /\ \E c \in OrderedRecords, p \in BaselineRecords, t \in CompareThresholds :
         cmp = [current |-> c, previous |-> p, threshold |-> t,
                changes |-> << >>, done |-> FALSE]

CompareStep ==
    /\ ~cmp.done
    /\ cmp' = [cmp EXCEPT !.changes = compare_scores(cmp.current, cmp.previous,
                                                     cmp.threshold),
                          !.done = TRUE]
    /\ UNCHANGED <<file, now, pc, memory>>

NextCompare == CompareStep

SpecCompare == InitCompare /\ [][NextCompare]_vars

\* ================================================================== claims
\* What the claims speak of, stated without the operators of the model.

\* A Score Record as a map category -> score.
AsMap(rec) ==
    [c \in {rec[k].category : k \in 1..Len(rec)} |->
        rec[CHOOSE k \in 1..Len(rec) : rec[k].category = c].score]

PositionIn(rec, cat) == CHOOSE k \in 1..Len(rec) : rec[k].category = cat

\* Some category of both records moved by at least t.
SignificantMove(cur, prev, t) ==
    \E c \in (DOMAIN AsMap(cur)) \cap (DOMAIN AsMap(prev)) :
        \/ AsMap(cur)[c] - AsMap(prev)[c] >= t
        \/ AsMap(prev)[c] - AsMap(cur)[c] >= t

\* The URL's Score Record in the last Run of a persisted history, else empty.
BaselineOf(store, url) ==
    IF store.runs = << >> THEN << >>
    ELSE LET last == store.runs[Len(store.runs)].results
         IN  IF \E k \in 1..Len(last) : last[k].url = url
             THEN last[CHOOSE k \in 1..Len(last) : last[k].url = url].scores
             ELSE << >>

\* The Run this invocation records.
RecordedRun ==
    [date |-> run_date,
     results |-> [k \in 1..Len(current_results) |->
                    [url |-> current_results[k].url,
                     scores |-> current_results[k].scores]]]

\* prior history followed by the Run, cut to its last 52.
ExpectedRuns ==
    LET all == prior.runs \o <<RecordedRun>>
    IN  IF Len(all) <= 52 THEN all ELSE [k \in 1..52 |-> all[Len(all) - 52 + k]]

\* The audit loop has visited every URL.
AuditDone == Len(fetched) = Len(URLS)

\* The [url, scores] entries of the URLs whose fetch returned a record
\* (a non-empty one when nonEmpty), in configured order.
RECURSIVE ReturnedEntries(_, _)
ReturnedEntries(k, nonEmpty) ==
    IF k = 0 THEN << >>
    ELSE LET rest == ReturnedEntries(k - 1, nonEmpty)
         IN  IF ~fetched[k].none /\ (nonEmpty => fetched[k].scores # << >>)
             THEN Append(rest, [url |-> URLS[k], scores |-> fetched[k].scores])
             ELSE rest

\* C1: the persisted history never holds more than 52 Runs, and once an
\* invocation has saved, history.json holds exactly the last 52 of (the
\* history it loaded followed by its new Run), older Runs unchanged in order.
C1_RetentionFifo ==
    /\ Len(file.runs) <= 52
    /\ pc \in {"saved", "done"} /\ AuditDone => file = [kind |-> "ok", runs |-> ExpectedRuns]

\* C1 witness: a save onto a full history evicted the oldest Run.
C1_EvictionHappened ==
    /\ pc = "saved"
    /\ Len(prior.runs) = 52
    /\ Len(file.runs) = 52
    /\ file.runs[1] = prior.runs[2]
    /\ file.runs[52].date = run_date

\* C2: compare_scores emits a Change for a category iff the category is in
\* both records and the absolute difference is >= threshold, and the Changes
\* follow the order of current's categories.
C2_ChangeIffSharedAndAtLeastThreshold ==
    cmp.done =>
        LET cur == AsMap(cmp.current)
            prev == AsMap(cmp.previous)
            ch == cmp.changes
        IN  /\ \A c \in CompareCategories :
                   (\E k \in 1..Len(ch) : ch[k].category = c)
                   <=> /\ c \in DOMAIN cur
                       /\ c \in DOMAIN prev
                       /\ \/ cur[c] - prev[c] >= cmp.threshold
                          \/ prev[c] - cur[c] >= cmp.threshold
            /\ \A j, k \in 1..Len(ch) :
                   j < k => PositionIn(cmp.current, ch[j].category)
                            < PositionIn(cmp.current, ch[k].category)

\* C2 witness: a Change exactly at the threshold, beside a category of
\* current that previous lacks and that yields no Change.
C2_BoundaryAndAbsent ==
    /\ cmp.done
    /\ cmp.threshold > 0
    /\ \E k \in 1..Len(cmp.changes) :
           cmp.changes[k].diff \in {cmp.threshold, -cmp.threshold}
    /\ \E k \in 1..Len(cmp.current) :
           /\ cmp.current[k].category \notin DOMAIN AsMap(cmp.previous)
           /\ \A j \in 1..Len(cmp.changes) :
                  cmp.changes[j].category # cmp.current[k].category

\* C3: for every threshold >= 0, compare_scores(a, a, t) is empty, no Change
\* has difference 0, and a Change is improved iff its difference is > 0 and
\* declined iff its difference is < 0.
C3_NoSelfDiff ==
    cmp.done /\ cmp.threshold >= 0 =>
        /\ AsMap(cmp.current) = AsMap(cmp.previous) => cmp.changes = << >>
        /\ \A k \in 1..Len(cmp.changes) :
               /\ cmp.changes[k].diff # 0
               /\ cmp.changes[k].direction = "improved" <=> cmp.changes[k].diff > 0
               /\ cmp.changes[k].direction = "declined" <=> cmp.changes[k].diff < 0

\* C4 (as claimed): every URL is fetched, and the saved Run holds exactly one
\* Score Record for each URL whose fetch returned a Score Record, in
\* configured order, and none for a URL whose fetch failed.
C4_RunHoldsEveryReturnedRecord ==
    pc = "saved" =>
        /\ AuditDone
        /\ file.runs[Len(file.runs)].results = ReturnedEntries(Len(URLS), FALSE)

\* C4 (amended): every URL is fetched, and the saved Run holds exactly one
\* Score Record for each URL whose fetch returned a non-empty Score Record,
\* in configured order, and none for a URL whose fetch failed or returned an
\* empty Score Record.
C4_RunHoldsEveryNonEmptyRecord ==
    pc = "saved" =>
        /\ AuditDone
        /\ file.runs[Len(file.runs)].results = ReturnedEntries(Len(URLS), TRUE)

\* C4 witness: the first fetch failed, the second returned scores, and the
\* saved Run holds the second URL alone.
C4_FailureThenSuccess ==
    /\ pc = "saved"
    /\ fetched[1].none
    /\ fetched[2].scores # << >>
    /\ Len(file.runs[Len(file.runs)].results) = 1
    /\ file.runs[Len(file.runs)].results[1].url = URLS[2]

\* C5 (as claimed): a batch with zero successful fetches does not raise and
\* leaves the persisted sequence of Runs as it was.
C5_EmptyBatchLeavesHistory ==
    pc \in {"saved", "done"} /\ AuditDone /\ current_results = << >> =>
        /\ ~raised
        /\ file.runs = prior.runs

\* C5 (amended): a batch with zero successful fetches does not raise; it
\* appends a Run with no Score Records (the oldest Run is evicted beyond 52),
\* so the next invocation has no baseline for any URL, and no notification
\* is attempted.
C5_EmptyBatchAppendsEmptyRun ==
    pc \in {"saved", "done"} /\ AuditDone /\ current_results = << >> =>
        /\ ~raised
        /\ file.kind = "ok"
        /\ file.runs = ExpectedRuns
        /\ file.runs[Len(file.runs)] = [date |-> run_date, results |-> << >>]
        /\ \A k \in 1..Len(URLS) : BaselineOf(file, URLS[k]) = << >>
        /\ subject = "none" /\ email = "none"

\* C5 witness: no fetch succeeded in an invocation that began with a
\* baseline for every URL.
C5_EmptyBatchOverBaseline ==
    /\ pc = "done"
    /\ AuditDone
    /\ current_results = << >>
    /\ \A k \in 1..Len(URLS) : BaselineOf(prior, URLS[k]) # << >>

\* C6: whenever the process is not running, crashed or not, history.json is
\* a complete history: never an empty, truncated or partly written one.
C6_WriteIsAtomic ==
    pc = "idle" => file.kind # "partial"

\* C7: an invocation that finds history.json missing or corrupt does not
\* fail; it starts from an empty History.
C7_LoadNeverFails ==
    pc # "idle" /\ prior.kind # "ok" =>
        /\ ~raised
        /\ DOMAIN previous_scores = {}
        /\ pc = "audit" => history = << >>

\* C8: the new Run is in history.json before the notification is attempted,
\* and it is still there, unaltered, after the notification was sent, failed
\* or was skipped; the invocation does not raise.
C8_PersistedWhateverDelivery ==
    pc \in {"saved", "done"} /\ AuditDone =>
        /\ file.kind = "ok"
        /\ file.runs[Len(file.runs)] = RecordedRun
        /\ file.runs = ExpectedRuns
        /\ pc = "saved" => email = "none" /\ subject = "none"
        /\ ~raised

\* C8 witness: delivery failed after the Run was saved.
C8_DeliveryFailed ==
    /\ pc = "done"
    /\ email = "failed"
    /\ file.runs[Len(file.runs)].date = run_date

\* C9: has_changes is true iff some fetched URL of the batch so far has a
\* non-empty Change list, and the subject follows has_changes alone.
C9_FlagIffSomeUrlChanged ==
    /\ pc \in {"audit", "dump", "saved", "done"} =>
           (has_changes <=>
               \E k \in 1..Len(fetched) :
                   /\ ~fetched[k].none
                   /\ SignificantMove(fetched[k].scores,
                                      BaselineOf(prior, URLS[k]), threshold))
    /\ subject # "none" => (subject = "alert" <=> has_changes)
    /\ pc = "done" /\ email # "none" => subject # "none"

\* C9 witness: the first URL changed, the second did not, and the alert
\* subject was chosen.
C9_FirstUrlChangedOnly ==
    /\ pc = "done"
    /\ subject = "alert"
    /\ Len(current_results) = 2
    /\ current_results[1].changes # << >>
    /\ current_results[2].changes = << >>

\* C10: the baseline of a URL is its Score Record in the latest Run only,
\* empty when there is no Run or the latest Run lacks the URL; such a URL
\* has no Changes and does not set has_changes.
C10_BaselineIsLatestRunOnly ==
    /\ \A k \in 1..Len(current_results) :
           LET e == current_results[k]
           IN  /\ e.previous = BaselineOf(prior, e.url)
               /\ BaselineOf(prior, e.url) = << >> => e.changes = << >>
    /\ has_changes =>
           \E k \in 1..Len(current_results) :
               /\ BaselineOf(prior, current_results[k].url) # << >>
               /\ current_results[k].changes # << >>

\* C10 witness: a URL scored in an older Run, missing from the latest Run,
\* comes back with a score that moved by the threshold or more: no Change.
C10_OlderRunIgnored ==
    /\ Len(prior.runs) >= 2
    /\ threshold > 0
    /\ \E k \in 1..Len(current_results) :
           LET e == current_results[k]
               older == [kind |-> "ok", runs |-> SubSeq(prior.runs, 1, Len(prior.runs) - 1)]
           IN  /\ BaselineOf(prior, e.url) = << >>
               /\ SignificantMove(e.scores, BaselineOf(older, e.url), threshold)
               /\ e.changes = << >>

====
